---------------------------- MODULE Spec2Model ----------------------------
(***************************************************************************)
(* Model of the sales analytics pipeline:                                  *)
(*   utils/file_handler.py   parse_transactions, validate_and_filter       *)
(*   utils/data_processor.py the aggregate functions                       *)
(*   utils/api_handler.py    enrich_sales_data / save_enriched_data,       *)
(*                           generate_sales_report                         *)
(*                                                                         *)
(* Representation.                                                         *)
(*  - A transaction is a Python dict: a function whose DOMAIN is the set   *)
(*    of keys it carries (a key may be missing: the code catches KeyError).*)
(*  - Identifiers and dates are strings the code inspects character by     *)
(*    character (startswith, lstrip, int, lexical sort): they are tuples   *)
(*    of one-character strings.  Region, ProductName are only compared     *)
(*    for equality and are atomic strings; the fields parse_transactions   *)
(*    cuts out of a raw line are all tuples of characters.                 *)
(*  - None is the empty tuple, a present optional value v is <<v>>.        *)
(*  - UnitPrice and every revenue are Python floats.  A float is held as   *)
(*    the integer it denotes and every float operation rounds its exact    *)
(*    result to Prec significant bits, ties to even (binary64 does so      *)
(*    with 53 bits; Prec scales the format down so that inexact sums       *)
(*    occur inside the model's range).                                     *)
(***************************************************************************)
EXTENDS Integers, Sequences, FiniteSets, TLC

\* ------------------------------------------------------------------ bounds
\* Longest transaction list drawn as input.
MaxLen == 3
\* Significand width of the modelled float format.
Prec == 3
\* Largest explicit n passed to top_selling_products.
MaxN == 3

\* ------------------------------------------------------- program constants
\* top_selling_products(transactions, n=5)
DefaultN == 5
\* low_performing_products(transactions, threshold=10)
DefaultThreshold == 10
\* round(..., 2): average order values are kept in 10^-2 units
AvgDecimals == 2
\* generate_sales_report: top_selling_products(transactions, 5) and [:5]
ReportTopN == 5
\* generate_sales_report: low_performing_products(transactions, threshold=14)
ReportThreshold == 14
\* generate_sales_report: {success_rate:.2f} and {average_order_value:,.2f}
RateDecimals == 2
\* round(..., 2): percentages are kept in 10^-2 units
PctDecimals == 2

\* --------------------------------------------------------------- optionals
None == <<>>
Some(v) == <<v>>
IsNone(o) == o = <<>>
Val(o) == o[1]

\* ------------------------------------------------------------------ floats
RECURSIVE Pow(_, _)
Pow(b, n) == IF n = 0 THEN 1 ELSE b * Pow(b, n - 1)

Abs(x) == IF x < 0 THEN -x ELSE x

\* Spacing of the floats around magnitude a >= 0: the least power of two s
\* with a < 2^Prec * s.
RECURSIVE Ulp(_, _)
Ulp(a, s) == IF a < Pow(2, Prec) * s THEN s ELSE Ulp(a, 2 * s)

\* a >= 0 rounded to the nearest multiple of s, ties to the even multiple.
RoundHalfEven(a, s) ==
    LET q == a \div s
        r == a % s
    IN  IF 2 * r < s THEN q * s
        ELSE IF 2 * r > s THEN (q + 1) * s
        ELSE IF q % 2 = 0 THEN q * s ELSE (q + 1) * s

\* The float nearest to the exact value x.
FRound(x) ==
    IF x >= 0 THEN RoundHalfEven(x, Ulp(x, 1))
    ELSE -RoundHalfEven(-x, Ulp(-x, 1))

\* a + b and a * b on floats (an int operand is converted first; every int
\* operand of the model is below 2^Prec in magnitude or rounds the same way).
FAdd(a, b) == FRound(a + b)
FMul(a, b) == FRound(a * b)

\* ------------------------------------------------------------------ strings
StartsWith(s, c) == Len(s) > 0 /\ s[1] = c

\* -------------------------------------------------------------- transactions
Fields == {"TransactionID", "Date", "ProductID", "ProductName",
           "Quantity", "UnitPrice", "CustomerID", "Region"}

Tx(id, date, pid, name, q, p, cid, reg) ==
    [TransactionID |-> id, Date |-> date, ProductID |-> pid,
     ProductName |-> name, Quantity |-> q, UnitPrice |-> p,
     CustomerID |-> cid, Region |-> reg]

\* The dict t with key k deleted.
Without(t, k) == [f \in (DOMAIN t) \ {k} |-> t[f]]

Has(t, k) == k \in DOMAIN t

\* All sequences over S of length at most n.
SeqsUpTo(S, n) == UNION {[1..k -> S] : k \in 0..n}

T001 == <<"T", "0", "0", "1">>
X001 == <<"X", "0", "0", "1">>
C001 == <<"C", "0", "0", "1">>
C002 == <<"C", "0", "0", "2">>
K001 == <<"K", "0", "0", "1">>
P101 == <<"P", "1", "0", "1">>
Q101 == <<"Q", "1", "0", "1">>
D01 == <<"2", "0", "2", "4", "-", "1", "2", "-", "0", "1">>
D02 == <<"2", "0", "2", "4", "-", "1", "2", "-", "0", "2">>
D10 == <<"2", "0", "2", "4", "-", "1", "2", "-", "1", "0">>

VARIABLES
    transactions,        \* the input list of the call
    pc,                  \* "start", or the name of the function that ran
    region,              \* validate_and_filter: region argument
    min_amount,          \* validate_and_filter: min_amount argument
    max_amount,          \* validate_and_filter: max_amount argument
    raised,              \* None, or Some(exception name) when the call raised
    valid_transactions,  \* validate_and_filter: returned list
    invalid_count,       \* validate_and_filter: returned invalid count
    filter_summary,      \* validate_and_filter: returned summary dict
    total_revenue,       \* calculate_total_revenue: returned total
    region_stats,        \* region_wise_sales: returned dict, in iteration order
    top_n,               \* top_selling_products: n argument
    top_products,        \* top_selling_products: returned list of tuples
    peak_day,            \* find_peak_sales_day: returned tuple
    product_mapping,     \* enrich_sales_data: product_mapping argument
    file_writable,       \* whether data/enriched_sales_data.txt can be opened
    enriched_transactions, \* enrich_sales_data: returned list
    enriched_file,       \* what save_enriched_data wrote, None when nothing
    sales_report,        \* generate_sales_report: what the report file holds
    raw_lines,           \* parse_transactions: raw_lines argument
    customer_stats,      \* customer_analysis: returned dict, in order
    daily_trend,         \* daily_sales_trend: returned dict, in order
    low_threshold,       \* low_performing_products: threshold argument
    low_products         \* low_performing_products: returned list of tuples

filterVars == <<region, min_amount, max_amount,
                valid_transactions, invalid_count, filter_summary>>
aggVars == <<total_revenue, region_stats, top_n, top_products, peak_day>>
enrichVars == <<product_mapping, file_writable, enriched_transactions,
                enriched_file, sales_report>>
parseVars == <<raw_lines>>
viewVars == <<customer_stats, daily_trend, low_threshold, low_products>>
vars == <<transactions, pc, raised, filterVars, aggVars, enrichVars,
          parseVars, viewVars>>

\* ------------------------------------------------- file_handler.py: validation

\* The condition of get_valid_transaction's if, evaluated left to right with
\* Python's short-circuit `or`: "invalid" when a disjunct is true, "KeyError"
\* when a key that is reached is missing, "valid" when every disjunct is false.
CheckTransaction(t) ==
    IF ~Has(t, "Quantity") THEN "KeyError"
    ELSE IF t["Quantity"] <= 0 THEN "invalid"
    ELSE IF ~Has(t, "UnitPrice") THEN "KeyError"
    ELSE IF t["UnitPrice"] <= 0 THEN "invalid"
    ELSE IF ~Has(t, "ProductID") THEN "KeyError"
    ELSE IF ~StartsWith(t["ProductID"], "P") THEN "invalid"
    ELSE IF ~Has(t, "TransactionID") THEN "KeyError"
    ELSE IF ~StartsWith(t["TransactionID"], "T") THEN "invalid"
    ELSE IF ~Has(t, "CustomerID") THEN "KeyError"
    ELSE IF ~StartsWith(t["CustomerID"], "C") THEN "invalid"
    ELSE "valid"

\* The loop of get_valid_transaction from index i on.
RECURSIVE GetValidLoop(_, _, _, _)
GetValidLoop(txs, i, inv, valid) ==
    IF i > Len(txs) THEN [invalid_count |-> inv, valid_transactions |-> valid]
    ELSE IF CheckTransaction(txs[i]) = "valid"
         THEN GetValidLoop(txs, i + 1, inv, Append(valid, txs[i]))
         ELSE GetValidLoop(txs, i + 1, inv + 1, valid)

get_valid_transaction(txs) == GetValidLoop(txs, 1, 0, <<>>)

\* The loop of get_trnsaction_by_region: valid_transaction['Region'] raises
\* KeyError (uncaught) when the key is missing.
RECURSIVE RegionLoop(_, _, _, _)
RegionLoop(reg, valid, i, acc) ==
    IF i > Len(valid) THEN [raised |-> None, value |-> acc]
    ELSE IF ~Has(valid[i], "Region")
         THEN [raised |-> Some("KeyError"), value |-> <<>>]
         ELSE IF valid[i]["Region"] = reg
              THEN RegionLoop(reg, valid, i + 1, Append(acc, valid[i]))
              ELSE RegionLoop(reg, valid, i + 1, acc)

get_trnsaction_by_region(reg, valid) == RegionLoop(reg, valid, 1, <<>>)

\* amount = transaction['Quantity'] * transaction['UnitPrice'] (int * float)
Amount(t) == FMul(t["Quantity"], t["UnitPrice"])

\* The continue conditions of get_transaction_by_amout's loop.
AmountKeptStrict(lo, hi, amount) ==
    /\ ~(~IsNone(lo) /\ amount <= Val(lo))
    /\ ~(~IsNone(hi) /\ amount >= Val(hi))
AmountKept(lo, hi, amount) ==
    /\ ~(~IsNone(lo) /\ amount < Val(lo))
    /\ ~(~IsNone(hi) /\ amount > Val(hi))

RECURSIVE AmountLoop(_, _, _, _, _)
AmountLoop(lo, hi, valid, i, acc) ==
    IF i > Len(valid) THEN acc
    ELSE IF AmountKept(lo, hi, Amount(valid[i]))
         THEN AmountLoop(lo, hi, valid, i + 1, Append(acc, valid[i]))
         ELSE AmountLoop(lo, hi, valid, i + 1, acc)

\* Returns the filtered list and the summary it updated in place.
AmountNoCount(lo, hi, valid, summary) ==
    [valid_transactions |-> AmountLoop(lo, hi, valid, 1, <<>>),
     filter_summary |-> summary]
get_transaction_by_amout(lo, hi, valid, summary) ==
    LET before_count == Len(valid)
        filter_by_amount == AmountLoop(lo, hi, valid, 1, <<>>)
    IN  [valid_transactions |-> filter_by_amount,
         filter_summary |->
             [summary EXCEPT !["filtered_by_amount"] =
                                 before_count - Len(filter_by_amount)]]

\* Python truthiness of the region argument: None and '' are falsy.
Truthy(reg) == ~IsNone(reg) /\ Val(reg) # ""

\* validate_and_filter: the record of what it returns, or raised # None.
validate_and_filter(txs, reg, lo, hi) ==
    LET summary0 == [total_input |-> Len(txs), invalid |-> 0,
                     filtered_by_region |-> 0, filtered_by_amount |-> 0,
                     final_count |-> 0]
        gv == get_valid_transaction(txs)
        summary1 == [summary0 EXCEPT !["invalid"] = gv.invalid_count]
        byreg == IF Truthy(reg)
                 THEN get_trnsaction_by_region(Val(reg), gv.valid_transactions)
                 ELSE [raised |-> None, value |-> gv.valid_transactions]
        summary2 == IF Truthy(reg)
                    THEN [summary1 EXCEPT !["filtered_by_region"] =
                              Len(gv.valid_transactions) - Len(byreg.value)]
                    ELSE summary1
        byamt == IF ~IsNone(lo) \/ ~IsNone(hi)
                 THEN get_transaction_by_amout(lo, hi, byreg.value, summary2)
                 ELSE [valid_transactions |-> byreg.value,
                       filter_summary |-> summary2]
    IN  IF ~IsNone(byreg.raised)
        THEN [raised |-> byreg.raised, valid_transactions |-> <<>>,
              invalid_count |-> gv.invalid_count, filter_summary |-> summary2]
        ELSE [raised |-> None,
              valid_transactions |-> byamt.valid_transactions,
              invalid_count |-> gv.invalid_count,
              filter_summary |->
                  [byamt.filter_summary EXCEPT !["final_count"] =
                       Len(byamt.valid_transactions)]]

\* ----------------------------------------------------- inputs of the filter
Regions == {"North", "north", ""}

\* Well-formed valid transactions over the three regions and two amounts.
FilterValidTx ==
    {Tx(T001, D01, P101, "Laptop", 1, 2, C001, "North"),
     Tx(T001, D01, P101, "Laptop", 2, 3, C001, "North"),
     Tx(T001, D01, P101, "Laptop", 1, 2, C001, "north"),
     Tx(T001, D01, P101, "Laptop", 2, 3, C001, "")}

\* One transaction per way of failing a validation rule, and transactions
\* with a key missing.
FilterBase == Tx(T001, D01, P101, "Laptop", 1, 2, C001, "North")
FilterOddTx ==
    {[FilterBase EXCEPT !["Quantity"] = -5],
     [FilterBase EXCEPT !["Quantity"] = 0],
     [FilterBase EXCEPT !["UnitPrice"] = 0],
     [FilterBase EXCEPT !["TransactionID"] = X001],
     [FilterBase EXCEPT !["ProductID"] = Q101],
     [FilterBase EXCEPT !["CustomerID"] = K001],
     Without(FilterBase, "Quantity"),
     Without(FilterBase, "Region")}

FilterTx == FilterValidTx \cup FilterOddTx

RegionArgs == {None} \cup {Some(r) : r \in Regions}
AmountArgs == {None, Some(0), Some(2), Some(6)}

\* The variables of a group of functions before any of them has run.
FilterIdle ==
    /\ region = None
    /\ min_amount = None
    /\ max_amount = None
    /\ valid_transactions = <<>>
    /\ invalid_count = 0
    /\ filter_summary = None

AggIdle ==
    /\ total_revenue = None
    /\ region_stats = None
    /\ top_n = None
    /\ top_products = None
    /\ peak_day = None

EnrichIdle ==
    /\ enriched_transactions = None
    /\ enriched_file = None
    /\ sales_report = None

ParseIdle == raw_lines = <<>>

ViewIdle ==
    /\ customer_stats = None
    /\ daily_trend = None
    /\ low_threshold = None
    /\ low_products = None

InitFilter ==
    /\ transactions \in SeqsUpTo(FilterTx, MaxLen)
    /\ pc = "start"
    /\ raised = None
    /\ FilterIdle
    /\ AggIdle
    /\ EnrichIdle
    /\ ParseIdle
    /\ ViewIdle
    /\ product_mapping = <<>>
    /\ file_writable = TRUE

ValidateAndFilter(reg, lo, hi) ==
    /\ pc = "start"
    /\ LET r == validate_and_filter(transactions, reg, lo, hi)
       IN  /\ raised' = r.raised
           /\ valid_transactions' = r.valid_transactions
           /\ invalid_count' = r.invalid_count
           /\ filter_summary' = IF IsNone(r.raised) THEN Some(r.filter_summary)
                                ELSE None
    /\ region' = reg
    /\ min_amount' = lo
    /\ max_amount' = hi
    /\ pc' = "validate_and_filter"
    /\ UNCHANGED <<transactions, aggVars, enrichVars, parseVars, viewVars>>

NextFilter ==
    \E reg \in RegionArgs, lo \in AmountArgs, hi \in AmountArgs :
        ValidateAndFilter(reg, lo, hi)

SpecFilter == InitFilter /\ [][NextFilter]_vars

\* ------------------------------------------------------ claims on the filter
Returned == pc = "validate_and_filter" /\ IsNone(raised)

\* The transactions get_valid_transaction accepts.
Accepted(t) == CheckTransaction(t) = "valid"

\* Every key of the data model is present.
WellFormed(t) == DOMAIN t = Fields

\* C1: whenever validate_and_filter returns, its summary satisfies
\* final_count = total_input - invalid - filtered_by_region -
\* filtered_by_amount, final_count is the length of the returned list,
\* total_input the length of the input list and the returned invalid_count
\* is the summary's 'invalid'.
C1_SummaryConsistent ==
    Returned =>
        LET s == Val(filter_summary)
        IN  /\ s.final_count = s.total_input - s.invalid
                                 - s.filtered_by_region - s.filtered_by_amount
            /\ s.final_count = Len(valid_transactions)
            /\ s.total_input = Len(transactions)
            /\ invalid_count = s.invalid

\* A return in which validation, the region filter and the amount filter
\* each removed a transaction.
C1_Witness ==
    /\ Returned
    /\ Val(filter_summary).invalid > 0
    /\ Val(filter_summary).filtered_by_region > 0
    /\ Val(filter_summary).filtered_by_amount > 0

\* The validity the claim states: all required fields (the eight keys of a
\* transaction), Quantity > 0, UnitPrice > 0 and the three prefixes.
ClaimValid(t) ==
    /\ WellFormed(t)
    /\ t["Quantity"] > 0
    /\ t["UnitPrice"] > 0
    /\ StartsWith(t["TransactionID"], "T")
    /\ StartsWith(t["ProductID"], "P")
    /\ StartsWith(t["CustomerID"], "C")

NoFilters == IsNone(region) /\ IsNone(min_amount) /\ IsNone(max_amount)

\* C2: with no filters, validate_and_filter returns exactly the input
\* transactions, in input order, that have all required fields, positive
\* Quantity and UnitPrice and the three identifier prefixes; every other
\* input transaction adds exactly 1 to the invalid count.
C2_ExactlyTheValid ==
    (pc = "validate_and_filter" /\ NoFilters) =>
        /\ IsNone(raised)
        /\ valid_transactions = SelectSeq(transactions, ClaimValid)
        /\ invalid_count = Len(transactions) - Len(valid_transactions)

\* C3: whenever a region argument is supplied (any string, the empty string
\* included), every returned transaction has exactly that Region and
\* filtered_by_region is the number of valid transactions of another Region.
C3_RegionExact ==
    (/\ Returned
     /\ ~IsNone(region)
     /\ \A i \in 1..Len(transactions) : WellFormed(transactions[i])) =>
        /\ \A i \in 1..Len(valid_transactions) :
               valid_transactions[i]["Region"] = Val(region)
        /\ Val(filter_summary).filtered_by_region =
               Len(SelectSeq(transactions,
                       LAMBDA t: Accepted(t) /\ t["Region"] # Val(region)))

\* The amount lies within the supplied bounds, both inclusive.
InBounds(t) ==
    /\ (IsNone(min_amount) \/ Val(min_amount) <= Amount(t))
    /\ (IsNone(max_amount) \/ Amount(t) <= Val(max_amount))

\* The list the amount step receives: the accepted transactions, narrowed
\* to the region when the region step ran.
RegionFiltered ==
    SelectSeq(transactions,
        LAMBDA t: /\ Accepted(t)
                  /\ (Truthy(region) => t["Region"] = Val(region)))

\* C4: whenever min_amount or max_amount is supplied, a valid and
\* region-matching transaction is kept iff min_amount <= Quantity * UnitPrice
\* <= max_amount (both inclusive, an unsupplied bound imposing no limit), and
\* filtered_by_amount is the number removed from the region-filtered list.
C4_AmountInclusive ==
    (Returned /\ (~IsNone(min_amount) \/ ~IsNone(max_amount))) =>
        /\ valid_transactions = SelectSeq(RegionFiltered, InBounds)
        /\ Val(filter_summary).filtered_by_amount =
               Len(RegionFiltered) - Len(valid_transactions)

\* Both bounds supplied, a kept transaction whose amount equals a bound, and
\* both filter steps removed something.
C4_Witness ==
    /\ Returned
    /\ ~IsNone(min_amount)
    /\ ~IsNone(max_amount)
    /\ \E i \in 1..Len(valid_transactions) :
           Amount(valid_transactions[i]) = Val(min_amount)
    /\ Val(filter_summary).filtered_by_region > 0
    /\ Val(filter_summary).filtered_by_amount > 0

\* ====================================================== data_processor.py

\* A Python dict is a sequence of entries in insertion order, each with its
\* key in the field `key`.  The index of key k, 0 when absent.
RECURSIVE IndexOfKey(_, _, _)
IndexOfKey(d, k, i) ==
    IF i > Len(d) THEN 0
    ELSE IF d[i].key = k THEN i ELSE IndexOfKey(d, k, i + 1)

\* The loop of calculate_total_revenue: a transaction without Quantity or
\* UnitPrice raises KeyError and is skipped.
RECURSIVE RevenueLoop(_, _, _)
RevenueLoop(txs, i, total) ==
    IF i > Len(txs) THEN total
    ELSE IF Has(txs[i], "Quantity") /\ Has(txs[i], "UnitPrice")
         THEN RevenueLoop(txs, i + 1, FAdd(total, Amount(txs[i])))
         ELSE RevenueLoop(txs, i + 1, total)

\* The total accumulated from 1 instead of 0.
RevenueStartsAtOne(txs) == RevenueLoop(txs, 1, 1)

calculate_total_revenue(txs) == RevenueLoop(txs, 1, 0)

\* sorted(items, key=..., reverse=True) is stable: an item goes after every
\* item already placed whose key is >= its own.  Items are <<key, entry>>.
InsertDescBeforeTies(s, x) ==
    LET k == Cardinality({i \in 1..Len(s) : s[i][1] > x[1]})
    IN  SubSeq(s, 1, k) \o <<x>> \o SubSeq(s, k + 1, Len(s))
InsertDesc(s, x) ==
    LET k == Cardinality({i \in 1..Len(s) : s[i][1] >= x[1]})
    IN  SubSeq(s, 1, k) \o <<x>> \o SubSeq(s, k + 1, Len(s))

RECURSIVE SortDescLoop(_, _, _)
SortDescLoop(s, i, acc) ==
    IF i > Len(s) THEN acc ELSE SortDescLoop(s, i + 1, InsertDesc(acc, s[i]))

\* The entries of dict d sorted by field f, descending.
SortedDescBy(d, f) ==
    LET keyed == [i \in 1..Len(d) |-> <<d[i][f], d[i]>>]
        sorted == SortDescLoop(keyed, 1, <<>>)
    IN  [i \in 1..Len(d) |-> sorted[i][2]]

\* a / b rounded to the nearest integer, ties to even (b > 0).
RoundDiv(a, b) ==
    IF a >= 0 THEN RoundHalfEven(a, b) \div b
    ELSE -(RoundHalfEven(-a, b) \div b)

\* round((part / total) * 100, 2), in units of 10^-PctDecimals percent.  The
\* quotient is taken exactly: its float error is far below the rounding step.
PctScale == 100 * Pow(10, PctDecimals)
PercentageOfOne(part, total) ==
    IF total > 0 THEN RoundDiv(part * Pow(10, PctDecimals), total) ELSE 0
Percentage(part, total) ==
    IF total > 0 THEN RoundDiv(part * PctScale, total) ELSE 0

\* The first loop of region_wise_sales: the dict and the grand total.
RECURSIVE RegionAccumulate(_, _, _, _)
RegionAccumulate(txs, i, stats, total) ==
    IF i > Len(txs) THEN [stats |-> stats, total_sales |-> total]
    ELSE IF ~(/\ Has(txs[i], "Region")
              /\ Has(txs[i], "Quantity")
              /\ Has(txs[i], "UnitPrice"))
         THEN RegionAccumulate(txs, i + 1, stats, total)
         ELSE
           LET reg == txs[i]["Region"]
               sales_amount == Amount(txs[i])
               k == IndexOfKey(stats, reg, 1)
               stats1 == IF k = 0
                         THEN Append(stats, [key |-> reg, total_sales |-> 0,
                                             transaction_count |-> 0])
                         ELSE stats
               j == IF k = 0 THEN Len(stats1) ELSE k
           IN  RegionAccumulate(txs, i + 1,
                   [stats1 EXCEPT
                       ![j].total_sales = FAdd(@, sales_amount),
                       ![j].transaction_count = @ + 1],
                   FAdd(total, sales_amount))

\* region_wise_sales: the returned dict, in its iteration order.
region_wise_sales(txs) ==
    LET acc == RegionAccumulate(txs, 1, <<>>, 0)
        withPct == [i \in 1..Len(acc.stats) |->
                      [key |-> acc.stats[i].key,
                       total_sales |-> acc.stats[i].total_sales,
                       transaction_count |-> acc.stats[i].transaction_count,
                       percentage |-> Percentage(acc.stats[i].total_sales,
                                                 acc.total_sales)]]
    IN  SortedDescBy(withPct, "total_sales")

\* get_product_stats: fills product_stats (empty on entry in both callers).
RECURSIVE ProductLoop(_, _, _)
ProductLoop(txs, i, stats) ==
    IF i > Len(txs) THEN stats
    ELSE IF ~(/\ Has(txs[i], "ProductName")
              /\ Has(txs[i], "Quantity")
              /\ Has(txs[i], "UnitPrice"))
         THEN ProductLoop(txs, i + 1, stats)
         ELSE
           LET name == txs[i]["ProductName"]
               k == IndexOfKey(stats, name, 1)
               stats1 == IF k = 0
                         THEN Append(stats, [key |-> name, total_quantity |-> 0,
                                             total_revenue |-> 0])
                         ELSE stats
               j == IF k = 0 THEN Len(stats1) ELSE k
           IN  ProductLoop(txs, i + 1,
                   [stats1 EXCEPT
                       ![j].total_quantity = @ + txs[i]["Quantity"],
                       ![j].total_revenue = FAdd(@, Amount(txs[i]))])

get_product_stats(txs) == ProductLoop(txs, 1, <<>>)

\* s[:n]
Slice(s, n) ==
    IF n >= 0 THEN SubSeq(s, 1, IF n < Len(s) THEN n ELSE Len(s))
    ELSE SubSeq(s, 1, IF Len(s) + n > 0 THEN Len(s) + n ELSE 0)

\* top_selling_products: the list of (name, total quantity, total revenue).
TopByRevenue(txs, n) ==
    LET sorted_products == SortedDescBy(get_product_stats(txs), "total_revenue")
        top == Slice(sorted_products, n)
    IN  [i \in 1..Len(top) |->
            <<top[i].key, top[i].total_quantity, top[i].total_revenue>>]
top_selling_products(txs, n) ==
    LET sorted_products ==
            SortedDescBy(get_product_stats(txs), "total_quantity")
        top == Slice(sorted_products, n)
    IN  [i \in 1..Len(top) |->
            <<top[i].key, top[i].total_quantity, top[i].total_revenue>>]

\* Code points of the characters dates are made of.
CharCode == [c \in {"-", "0", "1", "2", "3", "4", "5", "6", "7", "8", "9"} |->
               CASE c = "-" -> 45 [] c = "0" -> 48 [] c = "1" -> 49
                 [] c = "2" -> 50 [] c = "3" -> 51 [] c = "4" -> 52
                 [] c = "5" -> 53 [] c = "6" -> 54 [] c = "7" -> 55
                 [] c = "8" -> 56 [] c = "9" -> 57]

\* a <= b in Python's string order (code point by code point, a proper
\* prefix first).
RECURSIVE StrLeAt(_, _, _)
StrLeAt(a, b, i) ==
    IF i > Len(a) THEN TRUE
    ELSE IF i > Len(b) THEN FALSE
    ELSE IF CharCode[a[i]] < CharCode[b[i]] THEN TRUE
    ELSE IF CharCode[a[i]] > CharCode[b[i]] THEN FALSE
    ELSE StrLeAt(a, b, i + 1)
StrLe(a, b) == StrLeAt(a, b, 1)

\* sorted(items, key=date string): ascending and stable.
InsertAsc(s, x) ==
    LET k == Cardinality({i \in 1..Len(s) : StrLe(s[i].key, x.key)})
    IN  SubSeq(s, 1, k) \o <<x>> \o SubSeq(s, k + 1, Len(s))

RECURSIVE SortAscLoop(_, _, _)
SortAscLoop(s, i, acc) ==
    IF i > Len(s) THEN acc ELSE SortAscLoop(s, i + 1, InsertAsc(acc, s[i]))

\* The first loop of daily_sales_trend.
RECURSIVE DailyLoop(_, _, _)
DailyLoop(txs, i, stats) ==
    IF i > Len(txs) THEN stats
    ELSE IF ~(/\ Has(txs[i], "Date")
              /\ Has(txs[i], "CustomerID")
              /\ Has(txs[i], "Quantity")
              /\ Has(txs[i], "UnitPrice"))
         THEN DailyLoop(txs, i + 1, stats)
         ELSE
           LET date == txs[i]["Date"]
               k == IndexOfKey(stats, date, 1)
               stats1 == IF k = 0
                         THEN Append(stats, [key |-> date, revenue |-> 0,
                                             transaction_count |-> 0,
                                             unique_customers |-> <<>>])
                         ELSE stats
               j == IF k = 0 THEN Len(stats1) ELSE k
           IN  DailyLoop(txs, i + 1,
                   [stats1 EXCEPT
                       ![j].revenue = FAdd(@, Amount(txs[i])),
                       ![j].transaction_count = @ + 1,
                       ![j].unique_customers =
                            Append(@, txs[i]["CustomerID"])])

\* A daily trend whose transaction_count counts the day's distinct customers.
DailyTrendCountsCustomers(txs) ==
    LET stats == DailyLoop(txs, 1, <<>>)
        counted == [i \in 1..Len(stats) |->
                      [key |-> stats[i].key,
                       revenue |-> stats[i].revenue,
                       transaction_count |->
                           Cardinality({stats[i].unique_customers[c] :
                               c \in 1..Len(stats[i].unique_customers)}),
                       unique_customers |->
                           Cardinality({stats[i].unique_customers[c] :
                               c \in 1..Len(stats[i].unique_customers)})]]
    IN  SortAscLoop(counted, 1, <<>>)

\* daily_sales_trend: the returned dict, in its iteration order.
daily_sales_trend(txs) ==
    LET stats == DailyLoop(txs, 1, <<>>)
        counted == [i \in 1..Len(stats) |->
                      [key |-> stats[i].key,
                       revenue |-> stats[i].revenue,
                       transaction_count |-> stats[i].transaction_count,
                       unique_customers |->
                           Cardinality({stats[i].unique_customers[c] :
                               c \in 1..Len(stats[i].unique_customers)})]]
    IN  SortAscLoop(counted, 1, <<>>)

\* The test of find_peak_sales_day's loop.
BeatsOrTies(revenue, max_revenue) == revenue >= max_revenue
Beats(revenue, max_revenue) == revenue > max_revenue

RECURSIVE PeakLoop(_, _, _, _, _)
PeakLoop(daily, i, peak, max_revenue, count) ==
    IF i > Len(daily) THEN <<peak, max_revenue, count>>
    ELSE IF Beats(daily[i].revenue, max_revenue)
         THEN PeakLoop(daily, i + 1, Some(daily[i].key), daily[i].revenue,
                       daily[i].transaction_count)
         ELSE PeakLoop(daily, i + 1, peak, max_revenue, count)

\* find_peak_sales_day: (peak_day, max_revenue, transaction_count).
find_peak_sales_day(txs) == PeakLoop(daily_sales_trend(txs), 1, None, 0, 0)

\* The first loop of customer_analysis; products_bought is a set.
RECURSIVE CustomerLoop(_, _, _)
CustomerLoop(txs, i, stats) ==
    IF i > Len(txs) THEN stats
    ELSE IF ~(/\ Has(txs[i], "CustomerID")
              /\ Has(txs[i], "ProductName")
              /\ Has(txs[i], "Quantity")
              /\ Has(txs[i], "UnitPrice"))
         THEN CustomerLoop(txs, i + 1, stats)
         ELSE
           LET customer_id == txs[i]["CustomerID"]
               k == IndexOfKey(stats, customer_id, 1)
               stats1 == IF k = 0
                         THEN Append(stats, [key |-> customer_id,
                                             total_spent |-> 0,
                                             purchase_count |-> 0,
                                             products_bought |-> {}])
                         ELSE stats
               j == IF k = 0 THEN Len(stats1) ELSE k
           IN  CustomerLoop(txs, i + 1,
                   [stats1 EXCEPT
                       ![j].total_spent = FAdd(@, Amount(txs[i])),
                       ![j].purchase_count = @ + 1,
                       ![j].products_bought =
                            @ \cup {txs[i]["ProductName"]}])

\* round(total_spent / purchase_count, 2), in units of 10^-AvgDecimals.
AverageOrderValue(total_spent, purchase_count) ==
    IF purchase_count > 0
    THEN RoundDiv(total_spent * Pow(10, AvgDecimals), purchase_count)
    ELSE 0

\* customer_analysis: the returned dict, in its iteration order.  The order
\* of a customer's products_bought list is that of a set, left open here.
customer_analysis(txs) ==
    LET stats == CustomerLoop(txs, 1, <<>>)
        averaged == [i \in 1..Len(stats) |->
                       [key |-> stats[i].key,
                        total_spent |-> stats[i].total_spent,
                        purchase_count |-> stats[i].purchase_count,
                        avg_order_value |->
                            AverageOrderValue(stats[i].total_spent,
                                              stats[i].purchase_count),
                        products_bought |-> stats[i].products_bought]]
    IN  SortedDescBy(averaged, "total_spent")

\* The loop of low_performing_products over the product statistics.
RECURSIVE LowLoop(_, _, _, _)
LowLoop(stats, threshold, i, acc) ==
    IF i > Len(stats) THEN acc
    ELSE IF stats[i].total_quantity < threshold
         THEN LowLoop(stats, threshold, i + 1,
                      Append(acc, <<stats[i].key, stats[i].total_quantity,
                                    stats[i].total_revenue>>))
         ELSE LowLoop(stats, threshold, i + 1, acc)

\* low_performers.sort(key=lambda x: x[1]): ascending and stable.
InsertAscQuantity(s, x) ==
    LET k == Cardinality({i \in 1..Len(s) : s[i][2] <= x[2]})
    IN  SubSeq(s, 1, k) \o <<x>> \o SubSeq(s, k + 1, Len(s))

RECURSIVE SortAscQuantityLoop(_, _, _)
SortAscQuantityLoop(s, i, acc) ==
    IF i > Len(s) THEN acc
    ELSE SortAscQuantityLoop(s, i + 1, InsertAscQuantity(acc, s[i]))

low_performing_products(txs, threshold) ==
    SortAscQuantityLoop(LowLoop(get_product_stats(txs), threshold, 1, <<>>),
                        1, <<>>)

\* ------------------------------------------------- inputs of the aggregates
\* Well-formed valid transactions: (date, product, customer, region) taken
\* from four sales contexts, (quantity, unit price) from three.
AggContexts ==
    {<<D01, "Laptop", C001, "North">>, <<D02, "Mouse", C002, "South">>,
     <<D10, "Keyboard", C001, "East">>, <<D01, "Mouse", C002, "South">>}
AggValidTx ==
    {Tx(T001, c[1], P101, c[2], qp[1], qp[2], c[3], c[4]) :
        c \in AggContexts, qp \in {<<1, 7>>, <<2, 1>>, <<3, 3>>}}

\* Transactions validation would reject or that lack a key.
AggBase == Tx(T001, D02, P101, "Laptop", 1, 7, C001, "North")
AggOddTx ==
    {[AggBase EXCEPT !["Quantity"] = -5],
     [AggBase EXCEPT !["Quantity"] = 0],
     Without(AggBase, "Region"),
     Without(AggBase, "UnitPrice")}

AggTx == AggValidTx \cup AggOddTx

InitAgg ==
    /\ transactions \in SeqsUpTo(AggTx, MaxLen)
    /\ pc = "start"
    /\ raised = None
    /\ FilterIdle
    /\ AggIdle
    /\ EnrichIdle
    /\ ParseIdle
    /\ ViewIdle
    /\ product_mapping = <<>>
    /\ file_writable = TRUE

CalculateTotalRevenue ==
    /\ pc = "start"
    /\ total_revenue' = Some(calculate_total_revenue(transactions))
    /\ pc' = "calculate_total_revenue"
    /\ UNCHANGED <<transactions, raised, filterVars, enrichVars, parseVars,
                   viewVars,
                   region_stats, top_n, top_products, peak_day>>

RegionWiseSales ==
    /\ pc = "start"
    /\ region_stats' = Some(region_wise_sales(transactions))
    /\ pc' = "region_wise_sales"
    /\ UNCHANGED <<transactions, raised, filterVars, enrichVars, parseVars,
                   viewVars,
                   total_revenue, top_n, top_products, peak_day>>

\* n = None stands for a call that leaves n to its default.
TopSellingProducts(n) ==
    /\ pc = "start"
    /\ top_n' = n
    /\ top_products' = Some(top_selling_products(transactions,
                                IF IsNone(n) THEN DefaultN ELSE Val(n)))
    /\ pc' = "top_selling_products"
    /\ UNCHANGED <<transactions, raised, filterVars, enrichVars, parseVars,
                   viewVars,
                   total_revenue, region_stats, peak_day>>

FindPeakSalesDay ==
    /\ pc = "start"
    /\ peak_day' = Some(find_peak_sales_day(transactions))
    /\ pc' = "find_peak_sales_day"
    /\ UNCHANGED <<transactions, raised, filterVars, enrichVars, parseVars,
                   viewVars,
                   total_revenue, region_stats, top_n, top_products>>

CustomerAnalysis ==
    /\ pc = "start"
    /\ customer_stats' = Some(customer_analysis(transactions))
    /\ pc' = "customer_analysis"
    /\ UNCHANGED <<transactions, raised, filterVars, aggVars, enrichVars,
                   parseVars, daily_trend, low_threshold, low_products>>

DailySalesTrend ==
    /\ pc = "start"
    /\ daily_trend' = Some(daily_sales_trend(transactions))
    /\ pc' = "daily_sales_trend"
    /\ UNCHANGED <<transactions, raised, filterVars, aggVars, enrichVars,
                   parseVars, customer_stats, low_threshold, low_products>>

\* threshold = None stands for a call that leaves threshold to its default.
LowPerformingProducts(threshold) ==
    /\ pc = "start"
    /\ low_threshold' = threshold
    /\ low_products' = Some(low_performing_products(transactions,
                            IF IsNone(threshold) THEN DefaultThreshold
                            ELSE Val(threshold)))
    /\ pc' = "low_performing_products"
    /\ UNCHANGED <<transactions, raised, filterVars, aggVars, enrichVars,
                   parseVars, customer_stats, daily_trend>>

NextAgg ==
    \/ CalculateTotalRevenue
    \/ RegionWiseSales
    \/ \E n \in {None} \cup {Some(k) : k \in 0..MaxN} : TopSellingProducts(n)
    \/ FindPeakSalesDay
    \/ CustomerAnalysis
    \/ DailySalesTrend
    \/ \E threshold \in {None} \cup {Some(k) : k \in 1..MaxN} :
           LowPerformingProducts(threshold)

SpecAgg == InitAgg /\ [][NextAgg]_vars

\* -------------------------------------------------- claims on the aggregates
RECURSIVE SumOver(_, _, _)
\* The exact sum of s[i][f] over the entries of s from index i on.
SumOver(s, f, i) == IF i > Len(s) THEN 0 ELSE s[i][f] + SumOver(s, f, i + 1)

AllValid(txs) == \A i \in 1..Len(txs) : ClaimValid(txs[i])
AllWellFormed(txs) == \A i \in 1..Len(txs) : WellFormed(txs[i])

\* The exact (unrounded) sum of Quantity * UnitPrice.
RECURSIVE ExactTotal(_, _)
ExactTotal(txs, i) ==
    IF i > Len(txs) THEN 0
    ELSE txs[i]["Quantity"] * txs[i]["UnitPrice"] + ExactTotal(txs, i + 1)

\* Every product and every partial sum of the list is a float: nothing rounds.
NothingRounds(txs) == ExactTotal(txs, 1) <= Pow(2, Prec)

\* The entries' field f added up as floats, in iteration order (total += x).
RECURSIVE FloatSumOver(_, _, _, _)
FloatSumOver(s, f, i, total) ==
    IF i > Len(s) THEN total
    ELSE FloatSumOver(s, f, i + 1, FAdd(total, s[i][f]))

\* The percentages P of the regions sum to 100.0 within rounding error: half
\* a unit of the last decimal for each of the k regions, plus what the float
\* rounding of the sums (exact sum Rx of the region totals against the grand
\* total T) moves the quotients by.
PctSumWithinRounding(P, k, Rx, T) ==
    2 * Abs(P - PctScale) * T <= k * T + 2 * PctScale * Abs(Rx - T)

\* C5 (as stated): for every list of valid transactions the sum of total_sales
\* over the regions equals calculate_total_revenue, and when that total is
\* > 0 the percentages sum to 100.0 within rounding error.
C5_RegionSumsEqualRevenue ==
    (pc = "region_wise_sales" /\ AllValid(transactions)) =>
        LET rs == Val(region_stats)
            T == calculate_total_revenue(transactions)
        IN  /\ FloatSumOver(rs, "total_sales", 1, 0) = T
            /\ T > 0 =>
                 PctSumWithinRounding(SumOver(rs, "percentage", 1), Len(rs),
                                      SumOver(rs, "total_sales", 1), T)

\* C5 (amended): for every list of n valid transactions the sum R of the
\* regions' total_sales and T = calculate_total_revenue agree up to float
\* rounding, R/T within ((1+u)/(1-u))^(n-1) for unit roundoff u = 2^-Prec,
\* and exactly when no operation rounds; when T > 0 the percentages sum to
\* 100.0 within rounding error.
C5_RegionSumsWithinRounding ==
    (pc = "region_wise_sales" /\ AllValid(transactions)) =>
        LET rs == Val(region_stats)
            T == calculate_total_revenue(transactions)
            R == FloatSumOver(rs, "total_sales", 1, 0)
            n == Len(transactions)
            lo == Pow(Pow(2, Prec) - 1, IF n = 0 THEN 0 ELSE n - 1)
            hi == Pow(Pow(2, Prec) + 1, IF n = 0 THEN 0 ELSE n - 1)
        IN  /\ R * lo <= T * hi
            /\ T * lo <= R * hi
            /\ NothingRounds(transactions) => R = T
            /\ T > 0 =>
                 PctSumWithinRounding(SumOver(rs, "percentage", 1), Len(rs),
                                      SumOver(rs, "total_sales", 1), T)

\* Valid transactions in two regions or more, nothing rounds, and a
\* percentage that is not a whole multiple of the last decimal.
C5_Witness ==
    /\ pc = "region_wise_sales"
    /\ AllValid(transactions)
    /\ Len(transactions) = MaxLen
    /\ NothingRounds(transactions)
    /\ Len(Val(region_stats)) >= 2
    /\ \E i \in 1..Len(Val(region_stats)) :
           (Val(region_stats)[i].total_sales * PctScale)
               % calculate_total_revenue(transactions) # 0

\* Whether region_wise_sales counts the transaction (no KeyError).
RegionCounted(t) ==
    Has(t, "Region") /\ Has(t, "Quantity") /\ Has(t, "UnitPrice")

\* Index of the first transaction of the list counted for region r.
FirstSeenRegion(r) ==
    CHOOSE i \in 1..Len(transactions) :
        /\ RegionCounted(transactions[i]) /\ transactions[i]["Region"] = r
        /\ \A j \in 1..(i - 1) :
               ~(RegionCounted(transactions[j])
                 /\ transactions[j]["Region"] = r)

\* C6: the mapping returned by region_wise_sales iterates its regions in
\* non-increasing order of total_sales, regions of equal total_sales in the
\* order in which each was first encountered in the input list.
C6_RegionOrder ==
    pc = "region_wise_sales" =>
        LET rs == Val(region_stats)
        IN  \A i, j \in 1..Len(rs) :
                i < j =>
                    /\ rs[i].total_sales >= rs[j].total_sales
                    /\ rs[i].total_sales = rs[j].total_sales =>
                         FirstSeenRegion(rs[i].key) < FirstSeenRegion(rs[j].key)

\* Three regions, the first strictly ahead, the other two tied.
C6_Witness ==
    /\ pc = "region_wise_sales"
    /\ Len(Val(region_stats)) = 3
    /\ Val(region_stats)[1].total_sales > Val(region_stats)[2].total_sales
    /\ Val(region_stats)[2].total_sales = Val(region_stats)[3].total_sales

ProductNames == {transactions[i]["ProductName"] : i \in 1..Len(transactions)}
OfProduct(name) ==
    SelectSeq(transactions, LAMBDA t: t["ProductName"] = name)
FirstSeenProduct(name) ==
    CHOOSE i \in 1..Len(transactions) :
        /\ transactions[i]["ProductName"] = name
        /\ \A j \in 1..(i - 1) : transactions[j]["ProductName"] # name
Min(a, b) == IF a < b THEN a ELSE b

\* C7: top_selling_products(transactions, n) returns min(n, number of
\* distinct product names) tuples (name, total quantity, total revenue), one
\* per name, the totals summed over all transactions of the name, in
\* non-increasing order of total quantity, equal quantities in first-seen
\* order, every product left out having no more than every product returned;
\* n defaults to 5.
C7_TopSelling ==
    (pc = "top_selling_products" /\ AllWellFormed(transactions)) =>
        LET n == IF IsNone(top_n) THEN 5 ELSE Val(top_n)
            res == Val(top_products)
            returned == {res[i][1] : i \in 1..Len(res)}
        IN  /\ Len(res) = Min(n, Cardinality(ProductNames))
            /\ Cardinality(returned) = Len(res)
            /\ returned \subseteq ProductNames
            /\ \A i \in 1..Len(res) :
                   /\ res[i][2] = SumOver(OfProduct(res[i][1]), "Quantity", 1)
                   /\ res[i][3] = calculate_total_revenue(OfProduct(res[i][1]))
            /\ \A i, j \in 1..Len(res) :
                   i < j =>
                       /\ res[i][2] >= res[j][2]
                       /\ res[i][2] = res[j][2] =>
                            FirstSeenProduct(res[i][1])
                                < FirstSeenProduct(res[j][1])
            /\ \A name \in ProductNames \ returned :
                   \A i \in 1..Len(res) :
                       SumOver(OfProduct(name), "Quantity", 1) <= res[i][2]

\* Three products, two returned with the same total quantity, the one left
\* out with a larger total revenue than a returned one.
C7_Witness ==
    /\ pc = "top_selling_products"
    /\ AllWellFormed(transactions)
    /\ Cardinality(ProductNames) = 3
    /\ top_n = Some(2)
    /\ Val(top_products)[1][2] = Val(top_products)[2][2]
    /\ \E name \in ProductNames :
           /\ \A i \in 1..2 : Val(top_products)[i][1] # name
           /\ calculate_total_revenue(OfProduct(name)) > Val(top_products)[2][3]

\* The calendar day a date string denotes, as yyyymmdd.
Digit(c) == CharCode[c] - 48
DateValue(d) ==
    (Digit(d[1]) * 1000 + Digit(d[2]) * 100 + Digit(d[3]) * 10 + Digit(d[4]))
        * 10000
    + (Digit(d[6]) * 10 + Digit(d[7])) * 100
    + Digit(d[9]) * 10 + Digit(d[10])

\* The days of daily_sales_trend, as a set.
TrendDays ==
    LET trend == daily_sales_trend(transactions)
    IN  {trend[i] : i \in 1..Len(trend)}

\* C8: find_peak_sales_day returns (date, revenue, transaction_count) of the
\* day of daily_sales_trend with the greatest revenue, the chronologically
\* earliest of the days that share it; when no day has revenue > 0 (the empty
\* list included) the returned date is None.
C8_PeakDay ==
    pc = "find_peak_sales_day" =>
        LET peak == Val(peak_day)
        IN  IF \A d \in TrendDays : d.revenue <= 0
            THEN IsNone(peak[1])
            ELSE \E d \in TrendDays :
                    /\ \A e \in TrendDays : e.revenue <= d.revenue
                    /\ \A e \in TrendDays :
                           e.revenue = d.revenue =>
                               DateValue(d.key) <= DateValue(e.key)
                    /\ peak = <<Some(d.key), d.revenue, d.transaction_count>>

\* Two days share the greatest revenue, a third has less, and the input
\* meets the later of the two first.
C8_Witness ==
    /\ pc = "find_peak_sales_day"
    /\ AllWellFormed(transactions)
    /\ Cardinality(TrendDays) = 3
    /\ ~IsNone(Val(peak_day)[1])
    /\ \E e \in TrendDays :
           /\ e.revenue = Val(peak_day)[2]
           /\ e.key # Val(Val(peak_day)[1])
           /\ transactions[1]["Date"] = e.key

\* ========================================================== api_handler.py

Digits == {"0", "1", "2", "3", "4", "5", "6", "7", "8", "9"}

\* s.lstrip(chars): s without its longest prefix made of characters of chars.
RECURSIVE LStrip(_, _)
LStrip(s, chars) ==
    IF Len(s) > 0 /\ s[1] \in chars THEN LStrip(Tail(s), chars) ELSE s

\* The value of a non-empty string of decimal digits, most significant first.
RECURSIVE DigitsValue(_, _)
DigitsValue(s, acc) ==
    IF Len(s) = 0 THEN acc
    ELSE DigitsValue(Tail(s), 10 * acc + CharCode[s[1]] - 48)

\* int(s) on strings of letters and digits: None stands for ValueError (the
\* empty string, or a character that is no digit).
ParseInt(s) ==
    IF Len(s) > 0 /\ \A i \in 1..Len(s) : s[i] \in Digits
    THEN Some(DigitsValue(s, 0))
    ELSE None

\* The four fields of a transaction that found no product.
Unmatched(t) ==
    [f \in (DOMAIN t) \cup {"API_Category", "API_Brand", "API_Rating",
                            "API_Match"} |->
        IF f = "API_Match" THEN FALSE
        ELSE IF f \in {"API_Category", "API_Brand", "API_Rating"} THEN None
        ELSE t[f]]

Matched(t, product_info) ==
    [f \in (DOMAIN t) \cup {"API_Category", "API_Brand", "API_Rating",
                            "API_Match"} |->
        IF f = "API_Match" THEN TRUE
        ELSE IF f = "API_Category" THEN product_info["category"]
        ELSE IF f = "API_Brand" THEN product_info["brand"]
        ELSE IF f = "API_Rating" THEN product_info["rating"]
        ELSE t[f]]

\* What the body of enrich_sales_data's loop leaves in enriched_transaction.
EnrichedCopy(t, mapping) ==
    LET product_id_str == IF Has(t, "ProductID") THEN t["ProductID"] ELSE <<>>
        product_id == ParseInt(LStrip(product_id_str, {"P", "1"}))
    IN  IF IsNone(product_id) THEN Unmatched(t)                \* ValueError
        ELSE IF Val(product_id) \in DOMAIN mapping
             THEN LET product_info == mapping[Val(product_id)]
                  IN  IF {"category", "brand", "rating"}
                             \subseteq DOMAIN product_info
                      THEN Matched(t, product_info)
                      ELSE Unmatched(t)                        \* KeyError
             ELSE Unmatched(t)

\* The loop body writing into the input dict itself.
EnrichInPlace(t, mapping) ==
    [transaction |-> EnrichedCopy(t, mapping),
     enriched_transaction |-> EnrichedCopy(t, mapping)]

\* The body of enrich_sales_data's loop for one transaction: the fields are
\* added to transaction.copy(), so the input dict keeps what it had.
EnrichOne(t, mapping) ==
    [transaction |-> t, enriched_transaction |-> EnrichedCopy(t, mapping)]

\* save_enriched_data: the header comes from enriched_transactions[0], which
\* raises IndexError on the empty list after the file was opened (and
\* truncated); one row is written per transaction.
save_enriched_data(enriched, writable) ==
    IF ~writable THEN [raised |-> Some("OSError"), file |-> None]
    ELSE IF Len(enriched) = 0
         THEN [raised |-> Some("IndexError"),
               file |-> Some([headers |-> {}, rows |-> 0])]
         ELSE [raised |-> None,
               file |-> Some([headers |-> DOMAIN enriched[1],
                              rows |-> Len(enriched)])]

\* enrich_sales_data: the enriched list, the file written, what was raised,
\* and the caller's list as the call leaves it.
enrich_sales_data(txs, mapping, writable) ==
    LET enriched == [i \in 1..Len(txs) |->
                        EnrichOne(txs[i], mapping).enriched_transaction]
        saved == save_enriched_data(enriched, writable)
    IN  [raised |-> saved.raised,
         file |-> saved.file,
         transactions |-> [i \in 1..Len(txs) |->
                              EnrichOne(txs[i], mapping).transaction],
         value |-> IF IsNone(saved.raised) THEN Some(enriched) ELSE None]

\* min(...) and max(...) of a non-empty set of date strings.
MinDate(S) == CHOOSE d \in S : \A e \in S : StrLe(d, e)
MaxDate(S) == CHOOSE d \in S : \A e \in S : StrLe(e, d)

\* The loop of the API ENRICHMENT SUMMARY: the number of transactions whose
\* API_Match is False, and the ProductIDs (None when absent) of the others.
RECURSIVE EnrichmentLoop(_, _, _, _)
EnrichmentLoop(enriched, i, failed, successful) ==
    IF i > Len(enriched)
    THEN [failed_enriched_products |-> failed,
          successful_enriched_products |-> successful]
    ELSE IF Has(enriched[i], "API_Match") /\ enriched[i]["API_Match"] = FALSE
         THEN EnrichmentLoop(enriched, i + 1, failed + 1, successful)
         ELSE EnrichmentLoop(enriched, i + 1, failed,
                  Append(successful,
                         IF Has(enriched[i], "ProductID")
                         THEN Some(enriched[i]["ProductID"]) ELSE None))

\* (len(successful) / total_enriched) * 100 as printed with two decimals, in
\* units of 10^-RateDecimals percent.
SuccessRate(successful, total_enriched) ==
    IF total_enriched > 0
    THEN RoundDiv(successful * 100 * Pow(10, RateDecimals), total_enriched)
    ELSE 0

\* generate_sales_report: what was raised and what the report file holds, one
\* field per value printed (the timestamp and the layout are left out).
\* Amounts printed with two decimals are kept as the floats they print.
generate_sales_report(txs, enriched, writable) ==
    LET total_revenue_ == calculate_total_revenue(txs)
        total_transactions == Len(txs)
        dates == {txs[i]["Date"] : i \in {j \in 1..Len(txs) :
                                             Has(txs[j], "Date")}}
        summary == EnrichmentLoop(enriched, 1, 0, <<>>)
    IN  IF total_transactions = 0
        THEN [raised |-> Some("ZeroDivisionError"), report |-> None]
        ELSE IF \E i \in 1..Len(txs) : ~Has(txs[i], "Date")
        THEN [raised |-> Some("KeyError"), report |-> None]
        ELSE IF ~writable THEN [raised |-> Some("OSError"), report |-> None]
        ELSE [raised |-> None,
              report |-> Some(
                [records_processed |-> total_transactions,
                 total_revenue |-> total_revenue_,
                 total_transactions |-> total_transactions,
                 average_order_value |->
                     RoundDiv(total_revenue_ * Pow(10, RateDecimals),
                              total_transactions),
                 date_range |-> <<MinDate(dates), MaxDate(dates)>>,
                 region_sales |-> region_wise_sales(txs),
                 top_products |-> top_selling_products(txs, ReportTopN),
                 top_customers |->
                     Slice(SortedDescBy(customer_analysis(txs),
                                        "total_spent"), ReportTopN),
                 daily_trend |-> daily_sales_trend(txs),
                 peak_day |-> find_peak_sales_day(txs)[1],
                 max_revenue |-> find_peak_sales_day(txs)[2],
                 low_performers |->
                     low_performing_products(txs, ReportThreshold),
                 total_enriched |-> Len(enriched),
                 success_rate |->
                     SuccessRate(Len(summary.successful_enriched_products),
                                 Len(enriched)),
                 could_not_be_enriched |->
                     summary.successful_enriched_products])]

\* ------------------------------------------------- inputs of the enrichment
P5 == <<"P", "5">>
P7 == <<"P", "7">>
P999 == <<"P", "9", "9", "9">>
P1 == <<"P", "1">>
X7 == <<"X", "7">>

EnrichBase == Tx(T001, D01, P101, "Laptop", 1, 2, C001, "North")
EnrichTx ==
    {[EnrichBase EXCEPT !["ProductID"] = pid] :
        pid \in {P101, P5, P7, P999, P1, X7}}
    \cup {Without(EnrichBase, "ProductID")}

\* The catalog entry create_product_mapping builds for product id k.
ProductInfo(k) ==
    [title |-> <<"title", k>>, category |-> <<"category", k>>,
     brand |-> <<"brand", k>>, rating |-> <<"rating", k>>]

\* The product mappings: every set of ids among these, the empty one included.
CatalogIds == {1, 5, 7, 101}
ProductMappings == {[k \in ids |-> ProductInfo(k)] : ids \in SUBSET CatalogIds}

InitEnrich ==
    /\ transactions \in SeqsUpTo(EnrichTx, MaxLen)
    /\ product_mapping \in ProductMappings
    /\ file_writable \in BOOLEAN
    /\ pc = "start"
    /\ raised = None
    /\ FilterIdle
    /\ AggIdle
    /\ EnrichIdle
    /\ ParseIdle
    /\ ViewIdle

EnrichSalesData ==
    /\ pc = "start"
    /\ LET r == enrich_sales_data(transactions, product_mapping, file_writable)
       IN  /\ raised' = r.raised
           /\ enriched_transactions' = r.value
           /\ enriched_file' = r.file
           /\ transactions' = r.transactions
    /\ pc' = "enrich_sales_data"
    /\ UNCHANGED <<filterVars, aggVars, parseVars, viewVars, product_mapping,
                   file_writable, sales_report>>

\* The report on a list and its enrichment; writable tells whether
\* output/sales_report.txt can be opened.
GenerateSalesReport(writable) ==
    /\ pc = "enrich_sales_data"
    /\ IsNone(raised)
    /\ LET r == generate_sales_report(transactions,
                                      Val(enriched_transactions), writable)
       IN  /\ raised' = r.raised
           /\ sales_report' = r.report
    /\ pc' = "generate_sales_report"
    /\ UNCHANGED <<transactions, filterVars, aggVars, parseVars, viewVars,
                   product_mapping, file_writable, enriched_transactions,
                   enriched_file>>

NextEnrich ==
    \/ EnrichSalesData
    \/ \E writable \in BOOLEAN : GenerateSalesReport(writable)

SpecEnrich == InitEnrich /\ [][NextEnrich]_vars

\* ------------------------------------------------ claims on the enrichment
\* 'P' followed by the decimal digits of an integer.
IsProductCode(pid) ==
    /\ Len(pid) >= 2
    /\ pid[1] = "P"
    /\ \A i \in 2..Len(pid) : pid[i] \in Digits
    /\ (Len(pid) > 2 => pid[2] # "0")

\* C9: for every transaction whose ProductID is 'P' followed by the decimal
\* digits of an integer k (P101 -> 101, P5 -> 5, P7 -> 7), API_Match is True
\* exactly when k is a key of the product mapping, and then API_Category,
\* API_Brand and API_Rating are those of the entry for k; when k is not a
\* key, API_Match is False and the three fields are None.
C9_MatchByNumericId ==
    (pc = "enrich_sales_data" /\ IsNone(raised)) =>
        \A i \in 1..Len(transactions) :
            LET t == transactions[i]
                e == Val(enriched_transactions)[i]
            IN  (Has(t, "ProductID") /\ IsProductCode(t["ProductID"])) =>
                    LET k == DigitsValue(Tail(t["ProductID"]), 0)
                    IN  IF k \in DOMAIN product_mapping
                        THEN /\ e["API_Match"] = TRUE
                             /\ e["API_Category"]
                                    = product_mapping[k]["category"]
                             /\ e["API_Brand"] = product_mapping[k]["brand"]
                             /\ e["API_Rating"] = product_mapping[k]["rating"]
                        ELSE /\ e["API_Match"] = FALSE
                             /\ IsNone(e["API_Category"])
                             /\ IsNone(e["API_Brand"])
                             /\ IsNone(e["API_Rating"])

\* C10: for every transaction list, the empty list included, and every
\* product mapping, the empty mapping included, enrich_sales_data returns
\* normally when the output file is writable, and with an empty mapping
\* every returned transaction has API_Match False and the three API fields
\* None.
C10_NeverRaises ==
    (pc = "enrich_sales_data" /\ file_writable) =>
        /\ IsNone(raised)
        /\ ~IsNone(enriched_transactions)
        /\ DOMAIN product_mapping = {} =>
               \A i \in 1..Len(Val(enriched_transactions)) :
                   LET e == Val(enriched_transactions)[i]
                   IN  /\ e["API_Match"] = FALSE
                       /\ IsNone(e["API_Category"])
                       /\ IsNone(e["API_Brand"])
                       /\ IsNone(e["API_Rating"])

\* The four fields the enrichment adds.
ApiFields == {"API_Category", "API_Brand", "API_Rating", "API_Match"}

\* C11: for every non-empty transaction list and every product mapping, a
\* call of enrich_sales_data that returns gives a list as long as its input
\* whose i-th element carries the fields of the i-th input (the eight
\* original ones) with unchanged values plus exactly API_Category, API_Brand,
\* API_Rating and API_Match, and the input dicts are left as they were,
\* without those four fields.
C11_EnrichFrame ==
    [][(pc = "start" /\ pc' = "enrich_sales_data" /\ Len(transactions) > 0
        /\ IsNone(raised')) =>
           LET out == Val(enriched_transactions')
           IN  /\ Len(out) = Len(transactions)
               /\ \A i \in 1..Len(transactions) :
                      /\ DOMAIN out[i] = (DOMAIN transactions[i]) \cup ApiFields
                      /\ \A f \in DOMAIN transactions[i] :
                             out[i][f] = transactions[i][f]
               /\ transactions' = transactions
               /\ \A i \in 1..Len(transactions') :
                      (DOMAIN transactions'[i]) \cap ApiFields = {}]_vars

\* A returned list of three eight-field transactions, matched and unmatched.
C11_Witness ==
    /\ pc = "enrich_sales_data"
    /\ IsNone(raised)
    /\ Len(transactions) = 3
    /\ AllWellFormed(transactions)
    /\ Len(Val(enriched_transactions)) = 3
    /\ \E i, j \in 1..3 :
           /\ Val(enriched_transactions)[i]["API_Match"]
           /\ ~Val(enriched_transactions)[j]["API_Match"]

\* ====================================== file_handler.py: parse_transactions
\* Raw lines and the string fields cut out of them are tuples of characters.

Whitespace == {" ", "\t", "\n", "\r"}

\* s.rstrip(chars): s without its longest suffix made of characters of chars.
RECURSIVE RStrip(_, _)
RStrip(s, chars) ==
    IF Len(s) > 0 /\ s[Len(s)] \in chars
    THEN RStrip(SubSeq(s, 1, Len(s) - 1), chars)
    ELSE s

\* s.strip()
Strip(s) == RStrip(LStrip(s, Whitespace), Whitespace)

\* s.split(sep) for a one-character sep: parts ends with the field being read.
RECURSIVE SplitLoop(_, _, _, _)
SplitLoop(s, sep, i, parts) ==
    IF i > Len(s) THEN parts
    ELSE IF s[i] = sep THEN SplitLoop(s, sep, i + 1, Append(parts, <<>>))
    ELSE SplitLoop(s, sep, i + 1,
                   [parts EXCEPT ![Len(parts)] = Append(@, s[i])])

Split(s, sep) == SplitLoop(s, sep, 1, << <<>> >>)

\* s.replace(old, new) for a one-character old.
RECURSIVE Replace(_, _, _)
Replace(s, old, new) ==
    IF Len(s) = 0 THEN <<>>
    ELSE (IF s[1] = old THEN new ELSE <<s[1]>>) \o Replace(Tail(s), old, new)

\* int(s) on strings of digits, signs, dots, blanks and letters: blanks
\* around the text are ignored, one sign may lead, the rest must be one or
\* more digits.  None stands for ValueError.
ParseSignedInt(s) ==
    LET b == Strip(s)
        signed == Len(b) > 0 /\ b[1] \in {"+", "-"}
        body == IF signed THEN Tail(b) ELSE b
    IN  IF Len(body) > 0 /\ \A i \in 1..Len(body) : body[i] \in Digits
        THEN Some(IF signed /\ b[1] = "-" THEN -DigitsValue(body, 0)
                  ELSE DigitsValue(body, 0))
        ELSE None

\* float(s) on the same strings: as int(s) with at most one dot among the
\* digits.  The value is rounded to the float format, whose spacing below
\* 2^Prec is 1.  None stands for ValueError.
ParseFloat(s) ==
    LET b == Strip(s)
        signed == Len(b) > 0 /\ b[1] \in {"+", "-"}
        body == IF signed THEN Tail(b) ELSE b
        dots == {i \in 1..Len(body) : body[i] = "."}
        digits == Replace(body, ".", <<>>)
        frac == IF dots = {} THEN 0 ELSE Len(body) - (CHOOSE i \in dots : TRUE)
    IN  IF /\ Cardinality(dots) <= 1
           /\ Len(digits) > 0
           /\ \A i \in 1..Len(digits) : digits[i] \in Digits
        THEN LET a == FRound(RoundDiv(DigitsValue(digits, 0), Pow(10, frac)))
             IN  Some(IF signed /\ b[1] = "-" THEN -a ELSE a)
        ELSE None

\* The loop of parse_transactions leaving the loop at the first line it
\* cannot parse.
RECURSIVE ParseLoopBreak(_, _, _)
ParseLoopBreak(lines, i, acc) ==
    IF i > Len(lines) THEN acc
    ELSE LET parts == Split(Strip(lines[i]), "|")
         IN  IF Len(parts) # 8 THEN acc
             ELSE LET quantity == ParseSignedInt(Replace(parts[5], ",", <<>>))
                      unit_price == ParseFloat(Replace(parts[6], ",", <<>>))
                  IN  IF IsNone(quantity) \/ IsNone(unit_price) THEN acc
                      ELSE ParseLoopBreak(lines, i + 1, Append(acc,
                               Tx(parts[1], parts[2], parts[3],
                                  Replace(parts[4], ",", <<" ">>),
                                  Val(quantity), Val(unit_price),
                                  parts[7], parts[8])))

\* The loop of parse_transactions: a line that has not 8 parts, or whose
\* quantity or unit price raises ValueError, is passed over.
RECURSIVE ParseLoop(_, _, _)
ParseLoop(lines, i, acc) ==
    IF i > Len(lines) THEN acc
    ELSE LET parts == Split(Strip(lines[i]), "|")
         IN  IF Len(parts) # 8 THEN ParseLoop(lines, i + 1, acc)
             ELSE LET quantity == ParseSignedInt(Replace(parts[5], ",", <<>>))
                      unit_price == ParseFloat(Replace(parts[6], ",", <<>>))
                  IN  IF IsNone(quantity) \/ IsNone(unit_price)
                      THEN ParseLoop(lines, i + 1, acc)
                      ELSE ParseLoop(lines, i + 1, Append(acc,
                               Tx(parts[1], parts[2], parts[3],
                                  Replace(parts[4], ",", <<" ">>),
                                  Val(quantity), Val(unit_price),
                                  parts[7], parts[8])))

parse_transactions(lines) == ParseLoop(lines, 1, <<>>)

\* ------------------------------------------------------ inputs of the parser
\* The fields joined by '|', with the newline readlines() leaves at the end.
RECURSIVE JoinFrom(_, _)
JoinFrom(fields, i) ==
    IF i > Len(fields) THEN <<"\n">>
    ELSE (IF i = 1 THEN <<>> ELSE <<"|">>) \o fields[i]
         \o JoinFrom(fields, i + 1)

Laptop == <<"L", "a", "p", "t", "o", "p">>
MouseWireless == <<"M", "o", "u", "s", "e", ",", "U", "S", "B">>
North == <<"N", "o", "r", "t", "h">>

\* An eight-field line with the given id, quantity text and price text.
RawLine(n, quantity, price) ==
    JoinFrom(<<<<"T", n>>, D01, P101, Laptop, quantity, price, C001, North>>,
             1)

ParseLines ==
    { RawLine("1", <<"2">>, <<"7">>),
      JoinFrom(<<<<"T", "2">>, D02, P101, MouseWireless,
                 <<"1", ",", "0", "0", "0">>, <<"4", ",", "0">>,
                 C002, North>>, 1),
      JoinFrom(<<<<"T", "3">>, D01, P101, Laptop, <<"2">>, <<"7">>, C001>>,
               1),
      JoinFrom(<<<<"T", "4">>, D01, P101, Laptop, <<"2">>, <<"7">>, C001,
                 North, North>>, 1),
      RawLine("5", <<"x">>, <<"7">>),
      RawLine("6", <<"2">>, <<"x">>),
      RawLine("7", <<"2", ".", "5">>, <<"7">>),
      RawLine("8", <<"3">>, <<"7", ".", "0">>),
      RawLine("9", <<"-", "1">>, <<" ", "3", " ">>),
      RawLine("a", <<>>, <<"7">>),
      RawLine("b", <<"1", ",", "x">>, <<"7">>),
      <<"\n">> }

InitParse ==
    /\ raw_lines \in SeqsUpTo(ParseLines, MaxLen)
    /\ transactions = <<>>
    /\ pc = "start"
    /\ raised = None
    /\ FilterIdle
    /\ AggIdle
    /\ EnrichIdle
    /\ ViewIdle
    /\ product_mapping = <<>>
    /\ file_writable = TRUE

ParseTransactions ==
    /\ pc = "start"
    /\ transactions' = parse_transactions(raw_lines)
    /\ pc' = "parse_transactions"
    /\ UNCHANGED <<raised, filterVars, aggVars, enrichVars, parseVars,
                   viewVars>>

NextParse == ParseTransactions

SpecParse == InitParse /\ [][NextParse]_vars

\* ------------------------------------------------------ claims on the parser
\* The positions of '|' in a line, and the text of its k-th field.
Pipes(line) == {i \in 1..Len(line) : line[i] = "|"}

PipeAt(line, n) ==
    IF n = 0 THEN 0
    ELSE IF n > Cardinality(Pipes(line)) THEN Len(line) + 1
    ELSE CHOOSE i \in Pipes(line) :
             Cardinality({j \in Pipes(line) : j <= i}) = n

FieldAt(line, k) ==
    SubSeq(line, PipeAt(line, k - 1) + 1, PipeAt(line, k) - 1)

NotComma(c) == c # ","

\* s without its commas reads as a number: blanks around it, at most one
\* sign in front, then digits, with at most maxDots dots among them.
IsNumeral(s, maxDots) ==
    LET t == SelectSeq(s, NotComma)
        inked == {i \in 1..Len(t) : t[i] \notin Whitespace}
    IN  /\ inked # {}
        /\ LET lo == CHOOSE i \in inked : \A j \in inked : i <= j
               hi == CHOOSE i \in inked : \A j \in inked : j <= i
               first == IF t[lo] \in {"+", "-"} THEN lo + 1 ELSE lo
           IN  /\ \A i \in first..hi : t[i] \in Digits \cup {"."}
               /\ \E i \in first..hi : t[i] \in Digits
               /\ Cardinality({i \in first..hi : t[i] = "."}) <= maxDots

\* The line splits into exactly 8 fields, the quantity converts to an int and
\* the unit price to a float once commas are removed.
Convertible(line) ==
    /\ Cardinality(Pipes(line)) = 7
    /\ IsNumeral(FieldAt(line, 5), 0)
    /\ IsNumeral(FieldAt(line, 6), 1)

\* C12: parse_transactions returns, in input order, exactly one record for
\* each raw line that splits on '|' into exactly 8 fields and whose quantity
\* and unit-price fields convert to a number after commas are removed; every
\* other line is dropped, dropping a line never stops the lines after it
\* from being parsed, and the output is never longer than the input.
C12_ParseKeepsConvertible ==
    pc = "parse_transactions" =>
        LET kept == SelectSeq(raw_lines, Convertible)
        IN  /\ IsNone(raised)
            /\ Len(transactions) = Len(kept)
            /\ Len(transactions) <= Len(raw_lines)
            /\ \A k \in 1..Len(kept) :
                   /\ DOMAIN transactions[k] = Fields
                   /\ transactions[k]["TransactionID"] = FieldAt(kept[k], 1)
                   /\ transactions[k]["Date"] = FieldAt(kept[k], 2)
                   /\ transactions[k]["CustomerID"] = FieldAt(kept[k], 7)
                   /\ transactions[k]["Quantity"] \in Int
                   /\ transactions[k]["UnitPrice"] \in Int

\* A line that cannot be parsed stands between two that can, one of them
\* with commas in its name, quantity and price: both are returned, in order.
C12_Witness ==
    /\ pc = "parse_transactions"
    /\ Len(raw_lines) = 3
    /\ ~Convertible(raw_lines[2])
    /\ Len(transactions) = 2
    /\ \E i \in {1, 3} : \E j \in 1..Len(raw_lines[i]) :
           raw_lines[i][j] = ","
    /\ transactions[1]["TransactionID"] = FieldAt(raw_lines[1], 1)
    /\ transactions[2]["TransactionID"] = FieldAt(raw_lines[3], 1)

\* ------------------------------------------------- claims on the empty list
\* C13: on the empty transaction list every aggregate function returns its
\* empty result without raising: calculate_total_revenue returns 0,
\* region_wise_sales an empty mapping, top_selling_products and
\* low_performing_products empty lists, customer_analysis and
\* daily_sales_trend empty mappings, find_peak_sales_day a None date.
C13_EmptyInput ==
    (transactions = <<>> /\ pc # "start") =>
        /\ IsNone(raised)
        /\ pc = "calculate_total_revenue" => total_revenue = Some(0)
        /\ pc = "region_wise_sales" => region_stats = Some(<<>>)
        /\ pc = "top_selling_products" => top_products = Some(<<>>)
        /\ pc = "low_performing_products" => low_products = Some(<<>>)
        /\ pc = "customer_analysis" => customer_stats = Some(<<>>)
        /\ pc = "daily_sales_trend" => daily_trend = Some(<<>>)
        /\ pc = "find_peak_sales_day" =>
               /\ ~IsNone(peak_day)
               /\ IsNone(Val(peak_day)[1])

\* find_peak_sales_day has returned on the empty list.
C13_Witness ==
    /\ transactions = <<>>
    /\ pc = "find_peak_sales_day"
    /\ peak_day = Some(<<None, 0, 0>>)

\* ---------------------------------------------------- claims on the report
\* How often x occurs in the sequence s.
Count(s, x) == Cardinality({i \in 1..Len(s) : s[i] = x})

\* The ProductID an enriched transaction gives to the report.
ReportedId(e) == IF Has(e, "ProductID") THEN Some(e["ProductID"]) ELSE None

\* C14: in the report written by generate_sales_report, the list under
\* "Products that couldn't be enriched" holds exactly the ProductIDs of the
\* enriched transactions whose API_Match is False, and the success rate
\* printed is the share of enriched transactions whose API_Match is True.
C14_UnenrichedListed ==
    (pc = "generate_sales_report" /\ ~IsNone(sales_report)) =>
        LET enriched == Val(enriched_transactions)
            listed == Val(sales_report).could_not_be_enriched
            unmatched == {i \in 1..Len(enriched) : ~enriched[i]["API_Match"]}
            matched == {i \in 1..Len(enriched) : enriched[i]["API_Match"]}
        IN  /\ Len(listed) = Cardinality(unmatched)
            /\ \A i \in 1..Len(enriched) :
                   Count(listed, ReportedId(enriched[i])) =
                       Cardinality({j \in unmatched :
                           ReportedId(enriched[j]) = ReportedId(enriched[i])})
            /\ Val(sales_report).success_rate =
                   RoundDiv(Cardinality(matched) * 100 * Pow(10, RateDecimals),
                            Len(enriched))

\* ------------------------------------------- claims on the aggregate views
\* a and b agree up to the float rounding of n - 1 additions on either side:
\* their ratio lies within ((1+u)/(1-u))^(n-1) for unit roundoff u = 2^-Prec.
WithinRounding(a, b, n) ==
    LET lo == Pow(Pow(2, Prec) - 1, IF n = 0 THEN 0 ELSE n - 1)
        hi == Pow(Pow(2, Prec) + 1, IF n = 0 THEN 0 ELSE n - 1)
    IN  a * lo <= b * hi /\ b * lo <= a * hi

\* Every day's unique_customers is at least 1 and at most its
\* transaction_count.
CustomersWithinCount(days) ==
    \A i \in 1..Len(days) :
        /\ days[i].unique_customers >= 1
        /\ days[i].unique_customers <= days[i].transaction_count

\* C15 (as stated): for every list of validated transactions the sum of
\* 'revenue' over the days of daily_sales_trend and the sum of 'total_spent'
\* over the customers of customer_analysis both equal
\* calculate_total_revenue, the sums of 'transaction_count' over days and of
\* 'purchase_count' over customers both equal the number of transactions,
\* and each day's unique_customers is at least 1 and at most that day's
\* transaction_count.
C15_ViewsConserve ==
    AllValid(transactions) =>
        LET T == calculate_total_revenue(transactions)
        IN  /\ pc = "daily_sales_trend" =>
                 LET days == Val(daily_trend)
                 IN  /\ FloatSumOver(days, "revenue", 1, 0) = T
                     /\ SumOver(days, "transaction_count", 1)
                            = Len(transactions)
                     /\ CustomersWithinCount(days)
            /\ pc = "customer_analysis" =>
                 LET customers == Val(customer_stats)
                 IN  /\ FloatSumOver(customers, "total_spent", 1, 0) = T
                     /\ SumOver(customers, "purchase_count", 1)
                            = Len(transactions)

\* C15 (amended): for every list of n validated transactions the sum of
\* 'revenue' over the days and the sum of 'total_spent' over the customers
\* each agree with calculate_total_revenue up to float rounding, and exactly
\* when no operation rounds; the sums of 'transaction_count' over days and of
\* 'purchase_count' over customers both equal n, and each day's
\* unique_customers is at least 1 and at most that day's transaction_count.
C15_ViewsConserveWithinRounding ==
    AllValid(transactions) =>
        LET T == calculate_total_revenue(transactions)
            n == Len(transactions)
        IN  /\ pc = "daily_sales_trend" =>
                 LET days == Val(daily_trend)
                     D == FloatSumOver(days, "revenue", 1, 0)
                 IN  /\ WithinRounding(D, T, n)
                     /\ NothingRounds(transactions) => D = T
                     /\ SumOver(days, "transaction_count", 1) = n
                     /\ CustomersWithinCount(days)
            /\ pc = "customer_analysis" =>
                 LET customers == Val(customer_stats)
                     S == FloatSumOver(customers, "total_spent", 1, 0)
                 IN  /\ WithinRounding(S, T, n)
                     /\ NothingRounds(transactions) => S = T
                     /\ SumOver(customers, "purchase_count", 1) = n

\* Validated transactions of two customers on two days, one day holding two
\* transactions of the same customer, and nothing rounds.
C15_Witness ==
    /\ pc = "daily_sales_trend"
    /\ AllValid(transactions)
    /\ Len(transactions) = MaxLen
    /\ NothingRounds(transactions)
    /\ Len(Val(daily_trend)) = 2
    /\ Len(customer_analysis(transactions)) = 2
    /\ \E i \in 1..2 :
           /\ Val(daily_trend)[i].transaction_count = 2
           /\ Val(daily_trend)[i].unique_customers = 1

=============================================================================
